---- MODULE Spec2Model ----
(***************************************************************************)
(* Recursive least squares (statsmodels/regression/recursive_ls.py).       *)
(*                                                                         *)
(* The model follows one RecursiveLS model from construction through       *)
(* filter()/smooth() to the calls made on the RecursiveLSResults object.   *)
(* Real numbers are exact rationals [n, d] (d > 0, lowest terms); the      *)
(* record with d = 0 stands for a non-finite float (nan or +-inf), which   *)
(* is what numpy produces for a division by zero.                          *)
(* Python's zero-based indexing and slicing are kept by PyAt and PySlice.  *)
(***************************************************************************)
EXTENDS Integers, Sequences, FiniteSets, TLC

\* ------------------------------------------------------------ bounds
\* Largest sample size explored.
MaxNobs == 4
\* Largest number of calls made on one result.
MaxCalls == 1
\* Values a recursive residual may take (in units of one).
ResidValues == {-1, 0, 1}
\* Numbers of regressors explored.
KExogValues == {1, 2}
\* Values of loglikelihood_burn explored: none, and more than any k_exog.
BurnValues == {0, 2}
\* Largest sample explored where the data are followed.
MaxSample == 3
\* Values a response may take.
EndogValues == {0, 1}
\* Values a constraint's constant may take.
QValues == {0, 1}

None == "None"

\* ------------------------------------------------------------ numbers
RECURSIVE GCD(_, _)
GCD(a, b) == IF b = 0 THEN a ELSE GCD(b, a % b)

Abs(x) == IF x < 0 THEN -x ELSE x

Max(a, b) == IF a >= b THEN a ELSE b

\* The non-finite float: the result of x / 0 and of every operation on it.
NonFinite == [n |-> 0, d |-> 0]

IsFinite(x) == x.d # 0

\* The rational a / b in lowest terms with a positive denominator.
Rat(a, b) ==
    IF b = 0 THEN NonFinite
    ELSE LET g == GCD(Abs(a), Abs(b))
             s == IF b < 0 THEN -1 ELSE 1
         IN  [n |-> (s * a) \div g, d |-> (s * b) \div g]

RMul(x, y) ==
    IF ~IsFinite(x) \/ ~IsFinite(y) THEN NonFinite ELSE Rat(x.n * y.n, x.d * y.d)

RDiv(x, y) ==
    IF ~IsFinite(x) \/ ~IsFinite(y) THEN NonFinite ELSE Rat(x.n * y.d, x.d * y.n)

RAdd(x, y) ==
    IF ~IsFinite(x) \/ ~IsFinite(y) THEN NonFinite
    ELSE Rat(x.n * y.d + y.n * x.d, x.d * y.d)

\* x <= y for finite rationals.
RLe(x, y) == x.n * y.d <= y.n * x.d

RECURSIVE RSum(_)
RSum(seq) == IF seq = << >> THEN Rat(0, 1) ELSE RAdd(seq[1], RSum(Tail(seq)))

\* cov_p *= factor, on every entry of the matrix
ScaleMatrix(c, factor) ==
    [i \in 1..Len(c) |-> [j \in 1..Len(c[i]) |-> RMul(c[i][j], factor)]]

\* ------------------------------------------------------------ Python sequences
\* seq[i] with Python's zero-based index; a negative index counts from the end.
PyAt(seq, i) == IF i < 0 THEN seq[Len(seq) + i + 1] ELSE seq[i + 1]

\* Whether seq[i] raises IndexError.
PyIndexError(seq, i) == i >= Len(seq) \/ i < -Len(seq)

\* seq[a:b] for 0 <= a, 0 <= b: the elements at the zero-based indices a..b-1
\* that exist; empty when a >= b.
PySlice(seq, a, b) ==
    LET hi == IF b > Len(seq) THEN Len(seq) ELSE b
    IN  IF a >= hi THEN << >> ELSE [i \in 1..(hi - a) |-> seq[a + i]]

\* seq[a:]
PyFrom(seq, a) == PySlice(seq, a, Len(seq))

RECURSIVE Sum(_)
Sum(seq) == IF seq = << >> THEN 0 ELSE seq[1] + Sum(Tail(seq))

Square(seq) == [i \in 1..Len(seq) |-> seq[i] * seq[i]]

\* ------------------------------------------------------------ state
VARIABLES
    \* RecursiveLS (the model)
    nobs,                 \* number of observations n
    k_exog,               \* number of regressors k
    k_constraints,        \* number of constraint rows m
    r_matrix,             \* << >> for None, or <<R>> with R the m x k matrix
    q_matrix,             \* << >> for None, or <<q>> with q the m x 1 column
    args,                 \* what RecursiveLS(...) was called with
    endog,                \* per period, the observed vector handed to the filter
    exog,                 \* per period, the k regressors
    k_endog,              \* number of observed series the model reports
    k_constant,           \* 1 when a regressor is a constant, else 0
    design,               \* design[i][j][t], k_endog x k_states x nobs
    transition,           \* k_states x k_states
    obs_cov,              \* (1 + m) x (1 + m)
    initialization,       \* how the state is initialised
    loglikelihood_burn,   \* periods the caller asked to burn
    nmissing,             \* per period, the number of missing observations
    \* RecursiveLSResults (the result of filter()/smooth())
    pc,                   \* "model" before filter()/smooth(), "result" after it,
                          \* "returned" while the caller holds what a call gave
    nobs_diffuse,         \* periods the diffuse filter ran
    k_diffuse_states,     \* states with a diffuse prior
    standardized_forecasts_error, \* per period, in units of 1/sqrt(scale)
    scale_obs,            \* per-period contribution to the scale
    scale,                \* concentrated scale
    filtered_state,       \* per period, the k coefficients
    filtered_state_cov,   \* per period, the k x k covariance
    smoothed_state,       \* << >> for None, or <<series>>: per period the k coefficients
    smoothed_state_cov,   \* << >> for None, or <<series>>: per period the k x k covariance
    params,               \* filtered_state[:, -1]
    nobs_effective,
    df_model,
    df_resid,
    \* the last call made on the result and what it returned
    ret,
    ncalls

dataVars == <<q_matrix, args, endog, exog, k_endog, k_constant, design, transition,
              obs_cov, initialization>>

modelVars == <<nobs, k_exog, k_constraints, r_matrix, loglikelihood_burn, nmissing,
               dataVars>>

resultVars == <<nobs_diffuse, k_diffuse_states, standardized_forecasts_error,
                scale_obs, scale,
                filtered_state, smoothed_state, smoothed_state_cov, params, nobs_effective, df_model, df_resid>>

vars == <<modelVars, pc, resultVars, filtered_state_cov, ret, ncalls>>

NoCall == [op |-> "none"]

\* ------------------------------------------------------------ RecursiveLS.__init__
\* self._r_matrix = self._q_matrix = None, held as the empty tuple.
NoConstraints == << >>

\* The value of a data field in a specification that does not follow the data.
NotFollowed == << >>

\* The row that picks coefficient j of k.
UnitRow(k, j) == [i \in 1..k |-> IF i = j THEN 1 ELSE 0]

\* Missing-data patterns: at most one period has a missing response.
MissingPatterns(n) ==
    {[t \in 1..n |-> 0]} \cup
    {[t \in 1..n |-> IF t = j THEN 1 ELSE 0] : j \in 1..n}

Init ==
    /\ nobs \in 3..MaxNobs
    /\ k_exog \in KExogValues
    /\ k_constraints \in {0, 1}
    /\ k_constraints <= k_exog
    /\ r_matrix = IF k_constraints = 0 THEN NoConstraints
                  ELSE << <<UnitRow(k_exog, k_exog)>> >>
    /\ q_matrix = NotFollowed
    /\ args = NotFollowed
    /\ endog = NotFollowed
    /\ exog = NotFollowed
    /\ k_endog = NotFollowed
    /\ k_constant = NotFollowed
    /\ design = NotFollowed
    /\ transition = NotFollowed
    /\ obs_cov = NotFollowed
    /\ initialization = NotFollowed
    /\ loglikelihood_burn \in BurnValues
    /\ nmissing \in MissingPatterns(nobs)
    /\ pc = "model"
    /\ nobs_diffuse = None
    /\ k_diffuse_states = None
    /\ standardized_forecasts_error = None
    /\ scale_obs = None
    /\ scale = None
    /\ filtered_state = None
    /\ filtered_state_cov = None
    /\ smoothed_state = << >>
    /\ smoothed_state_cov = << >>
    /\ params = None
    /\ nobs_effective = None
    /\ df_model = None
    /\ df_resid = None
    /\ ret = NoCall
    /\ ncalls = 0

\* ------------------------------------------------------------ RecursiveLS.__init__, with the data
\* The response series of the class's example.
ExampleEndog == <<1, 2, 3, 4, 5>>

\* Response series a caller may pass.
EndogSeries == UNION {[1..n -> EndogValues] : n \in 2..MaxSample} \cup {ExampleEndog}

\* Regressor arrays a caller may pass for n periods: an intercept only, a trend
\* only, an intercept and a trend.
ExogArrays(n) ==
    {[t \in 1..n |-> <<1>>], [t \in 1..n |-> <<t>>], [t \in 1..n |-> <<1, t>>]}

\* Constraints a caller may pass for k regressors, in the tuple form (R, q):
\* none, one on the last coefficient, or one on each of the first two.
ConstraintArgs(k) ==
    {NoConstraints}
    \cup {<<[R |-> <<UnitRow(k, k)>>, q |-> <<c>>]>> : c \in QValues}
    \cup (IF k >= 2
          THEN {<<[R |-> <<UnitRow(k, 1), UnitRow(k, 2)>>, q |-> <<c1, c2>>]>> :
                    c1 \in QValues, c2 \in QValues}
          ELSE {})

\* The initialization keyword a caller may pass: none, or 'known' (with a zero
\* initial state and an identity initial covariance).
InitializationArgs == {<< >>, <<"known">>}

RecursiveLSArgs ==
    UNION {UNION {[endog : {y}, exog : {x}, constraints : ConstraintArgs(Len(x[1])),
                   initialization : InitializationArgs] : x \in ExogArrays(Len(y))} :
            y \in EndogSeries}

\* LC = DesignInfo(names).linear_constraint(constraints): LC.coefs is R and
\* LC.constants is q as a column, one row per constraint.
LinearConstraint(c) == [coefs |-> c.R, constants |-> [i \in 1..Len(c.q) |-> <<c.q[i]>>]]

\* np.c_[endog, np.zeros((len(endog), m))]
AppendZeros(y, m) == [t \in 1..Len(y) |-> <<y[t]>> \o [j \in 1..m |-> 0]]

\* Whether assigning value (a x b) to an n x m slice raises: numpy broadcasts
\* only when a is 1 or n and b is 1 or m.
BroadcastError(value, n, m) == ~(Len(value) \in {1, n} /\ Len(value[1]) \in {1, m})

\* value broadcast to n x m
Broadcast(value, n, m) ==
    [i \in 1..n |-> [j \in 1..m |->
        value[IF Len(value) = 1 THEN 1 ELSE i][IF Len(value[1]) = 1 THEN 1 ELSE j]]]

\* endog[:, 1:] = self._q_matrix
AssignConstants(aug, q, m) ==
    [t \in 1..Len(aug) |-> <<aug[t][1]>> \o Broadcast(q, Len(aug), m)[t]]

SetDefaultInitializationKnown(given) == IF given = << >> THEN "known" ELSE given[1]

\* kwargs.setdefault('initialization', 'diffuse')
SetDefaultInitialization(given) == IF given = << >> THEN "diffuse" ELSE given[1]

DesignWithoutConstraints(x, r, ke, k, n) ==
    [i \in 1..ke |-> [j \in 1..k |-> [t \in 1..n |-> IF i = 1 THEN x[t][j] ELSE 0]]]

\* design = zeros((k_endog, k_states, nobs)); design[0] = exog.T;
\* design[1:] = r_matrix[:, :, None]
Design(x, r, ke, k, n) ==
    [i \in 1..ke |-> [j \in 1..k |-> [t \in 1..n |->
        IF i = 1 THEN x[t][j]
        ELSE IF r # NoConstraints THEN r[1][i - 1][j]
        ELSE 0]]]

\* np.eye(k_states)
Eye(k) == [i \in 1..k |-> UnitRow(k, i)]

\* obs_cov starts as zeros; self['obs_cov', 0, 0] = 1.
ObsCov(ke) == [i \in 1..ke |-> [j \in 1..ke |-> IF i = 1 /\ j = 1 THEN 1 ELSE 0]]

\* Whether a regressor is the same non-zero number in every period.
KConstant(x) ==
    IF \E j \in 1..Len(x[1]) : x[1][j] # 0 /\ \A t \in 1..Len(x) : x[t][j] = x[1][j]
    THEN 1 ELSE 0

\* RecursiveLS(endog, exog, constraints, **kwargs): the fields of the model, or
\* the error raised.
RecursiveLS(a) ==
    LET n == Len(a.endog)
        k == Len(a.exog[1])
        given == a.constraints # NoConstraints
        LC == LinearConstraint(a.constraints[1])
        r == IF given THEN <<LC.coefs>> ELSE NoConstraints
        q == IF given THEN <<LC.constants>> ELSE NoConstraints
        m == IF given THEN Len(r[1]) ELSE 0
        ke == 1 + m
        raises == given /\ BroadcastError(q[1], n, m)
        y == IF given THEN AssignConstants(AppendZeros(a.endog, m), q[1], m)
             ELSE [t \in 1..n |-> <<a.endog[t]>>]
    IN  IF raises
        THEN [err |-> "ValueError: could not broadcast input array"]
        ELSE [err |-> None, nobs |-> n, k_exog |-> k, k_constraints |-> m,
              r_matrix |-> r, q_matrix |-> q, endog |-> y, exog |-> a.exog,
              initialization |-> SetDefaultInitialization(a.initialization),
              design |-> Design(a.exog, r, ke, k, n),
              transition |-> Eye(k),
              obs_cov |-> ObsCov(ke),
              k_constant |-> KConstant(a.exog),
              k_endog |-> IF r # NoConstraints THEN 1 ELSE ke]

\* The fields of a model whose construction raised: there is no model.
NoModel ==
    [err |-> None, nobs |-> None, k_exog |-> None, k_constraints |-> None,
     r_matrix |-> NoConstraints, q_matrix |-> NoConstraints, endog |-> None,
     exog |-> None, initialization |-> None, design |-> None, transition |-> None,
     obs_cov |-> None, k_constant |-> None, k_endog |-> None]

\* The state after RecursiveLS(...) returned or raised, the data followed.
DataInit ==
    \E a \in RecursiveLSArgs :
        LET made == RecursiveLS(a)
            model == IF made.err = None THEN made ELSE NoModel
        IN  /\ args = a
            /\ pc = IF made.err = None THEN "model" ELSE "raised"
            /\ ret = IF made.err = None THEN NoCall
                     ELSE [op |-> "RecursiveLS", err |-> made.err]
            /\ nobs = model.nobs
            /\ k_exog = model.k_exog
            /\ k_constraints = model.k_constraints
            /\ r_matrix = model.r_matrix
            /\ q_matrix = model.q_matrix
            /\ endog = model.endog
            /\ exog = model.exog
            /\ k_endog = model.k_endog
            /\ k_constant = model.k_constant
            /\ design = model.design
            /\ transition = model.transition
            /\ obs_cov = model.obs_cov
            /\ initialization = model.initialization
            /\ loglikelihood_burn = IF made.err = None THEN 0 ELSE None
            /\ nmissing = IF made.err = None THEN [t \in 1..model.nobs |-> 0] ELSE None
            /\ nobs_diffuse = None
            /\ k_diffuse_states = None
            /\ standardized_forecasts_error = None
            /\ scale_obs = None
            /\ scale = None
            /\ filtered_state = None
            /\ filtered_state_cov = None
            /\ smoothed_state = << >>
            /\ smoothed_state_cov = << >>
            /\ params = None
            /\ nobs_effective = None
            /\ df_model = None
            /\ df_resid = None
            /\ ncalls = 0

\* ------------------------------------------------------------ the Kalman filter
\* Periods the exact diffuse filter runs. Every period that starts with a prior
\* still diffuse in some direction (rank > 0) is a diffuse period; the observed
\* response removes one direction and, in the first period, each constraint row
\* (observed without noise) removes one more.
RECURSIVE DiffusePeriods(_, _)
DiffusePeriods(rank, t) ==
    IF rank = 0 \/ t = nobs THEN t
    ELSE LET byConstraints == IF t = 0 THEN k_constraints ELSE 0
             byResponse == IF nmissing[t + 1] = 0 THEN 1 ELSE 0
             left == rank - byConstraints - byResponse
         IN  DiffusePeriods(IF left < 0 THEN 0 ELSE left, t + 1)

\* Forecast errors the filter can report: none (zero) in a diffuse period and
\* for a missing response, any value of ResidValues otherwise.
ForecastErrors(nd) ==
    {v \in [1..nobs -> ResidValues] :
        \A t \in 1..nobs : (t <= nd \/ nmissing[t] = 1) => v[t] = 0}

BurnIndexOfDiffuseOnly(nd, burn) == nd

\* d = max(self.nobs_diffuse, self.loglikelihood_burn), given the two numbers.
BurnIndexOf(nd, burn) == Max(nd, burn)

\* The concentrated scale: the average contribution of the observations from d on.
ConcentratedScale(so, d) ==
    Rat(Sum(PyFrom(so, d)), (nobs - d) - Sum(PyFrom(nmissing, d)))

\* The standardized forecast error v / sqrt(F * scale), written as the rational
\* multiple of 1 / sqrt(scale) it is; non-finite when the scale is not a positive
\* number.
Standardize(v, sc) == IF IsFinite(sc) /\ sc.n > 0 THEN Rat(v, 1) ELSE NonFinite

\* The filtered coefficients at period t (zero-based): a stand-in for the
\* filter's estimate that moves with every forecast error.
FilteredState(v, t) == [i \in 1..k_exog |-> i + Sum(SubSeq(v, 1, t + 1))]

\* The filtered covariance at period t (zero-based), already multiplied by the
\* concentrated scale: scale * I / (t + 1).
FilteredStateCov(sc, t) ==
    [i \in 1..k_exog |-> [j \in 1..k_exog |->
        IF i = j THEN RMul(sc, Rat(1, t + 1)) ELSE RMul(sc, Rat(0, 1))]]

\* ------------------------------------------------------------ the Kalman filter, on the data
\* The univariate filter with exact diffuse initialisation: the state is the
\* mean a, the diffuse part Pinf and the finite part Pstar of its covariance.
\* The transition is the identity with no state noise, so the prediction for
\* the next period is the filtered state of this one.
RSub(x, y) == RAdd(x, RMul(Rat(-1, 1), y))

\* F applied to the value of e, computed once.
Apply(F(_), e) == CHOOSE y \in {F(x) : x \in {e}} : TRUE

RVec(z) == [j \in 1..Len(z) |-> Rat(z[j], 1)]

RDot(u, v) == RSum([j \in 1..Len(u) |-> RMul(u[j], v[j])])

MatVec(P, z) == [i \in 1..Len(P) |-> RDot(P[i], z)]

Outer(u, v) == [i \in 1..Len(u) |-> [j \in 1..Len(v) |-> RMul(u[i], v[j])]]

MatAdd(A, B) == [i \in 1..Len(A) |-> [j \in 1..Len(A[i]) |-> RAdd(A[i][j], B[i][j])]]

RZeros(k) == [i \in 1..k |-> [j \in 1..k |-> Rat(0, 1)]]

REye(k) == [i \in 1..k |-> [j \in 1..k |-> Rat(IF i = j THEN 1 ELSE 0, 1)]]

\* The state before the first observation.
InitialState(init, k) ==
    IF init = "diffuse"
    THEN [a |-> [j \in 1..k |-> Rat(0, 1)], Pinf |-> REye(k), Pstar |-> RZeros(k),
          so |-> Rat(0, 1)]
    ELSE [a |-> [j \in 1..k |-> Rat(0, 1)], Pinf |-> RZeros(k), Pstar |-> REye(k),
          so |-> Rat(0, 1)]

\* One observed series of one period: its design row z, its value y and its
\* noise variance h. A series whose forecast variance is zero is skipped.
UpdateRow(st, z, y, h) ==
    LET zr == RVec(z)
        Minf == MatVec(st.Pinf, zr)
        Mstar == MatVec(st.Pstar, zr)
        Finf == RDot(zr, Minf)
        Fstar == RAdd(RDot(zr, Mstar), Rat(h, 1))
        v == RSub(Rat(y, 1), RDot(zr, st.a))
    IN  IF Finf.n # 0
        THEN [a |-> [j \in 1..Len(z) |-> RAdd(st.a[j], RDiv(RMul(Minf[j], v), Finf))],
              Pinf |-> MatAdd(st.Pinf, ScaleMatrix(Outer(Minf, Minf), RDiv(Rat(-1, 1), Finf))),
              Pstar |-> MatAdd(MatAdd(st.Pstar,
                                      ScaleMatrix(MatAdd(Outer(Mstar, Minf), Outer(Minf, Mstar)),
                                                  RDiv(Rat(-1, 1), Finf))),
                               ScaleMatrix(Outer(Minf, Minf), RDiv(Fstar, RMul(Finf, Finf)))),
              so |-> st.so]
        ELSE IF Fstar.n # 0
        THEN [a |-> [j \in 1..Len(z) |-> RAdd(st.a[j], RDiv(RMul(Mstar[j], v), Fstar))],
              Pinf |-> st.Pinf,
              Pstar |-> MatAdd(st.Pstar, ScaleMatrix(Outer(Mstar, Mstar), RDiv(Rat(-1, 1), Fstar))),
              so |-> RAdd(st.so, RDiv(RMul(v, v), Fstar))]
        ELSE st

\* Period t (one-based): the series 1..i of the observed vector, in order.
RECURSIVE UpdatePeriod(_, _, _, _)
UpdatePeriod(st, m, t, i) ==
    IF i = 0 THEN [st EXCEPT !.so = Rat(0, 1)]
    ELSE LET Row(before) ==
                 UpdateRow(before, [j \in 1..Len(m.design[i]) |-> m.design[i][j][t]],
                           m.endog[t][i], m.obs_cov[i][i])
         IN  Apply(Row, UpdatePeriod(st, m, t, i - 1))

\* The states after the periods 1..t.
RECURSIVE FilterThrough(_, _)
FilterThrough(m, t) ==
    IF t = 0 THEN <<InitialState(m.initialization, Len(m.transition))>>
    ELSE LET Period(before) ==
                 Append(before, UpdatePeriod(before[Len(before)], m, t, Len(m.obs_cov)))
         IN  Apply(Period, FilterThrough(m, t - 1))

\* What the filter reports for the model m.
KalmanFilter(m) ==
    LET n == Len(m.endog)
        k == Len(m.transition)
        Report(sts) ==
            LET nd == Cardinality({t \in 1..n : sts[t].Pinf # RZeros(k)})
                d == Max(nd, m.loglikelihood_burn)
                so == [t \in 1..n |-> IF t <= nd THEN Rat(0, 1) ELSE sts[t + 1].so]
                sc == RDiv(RSum(PyFrom(so, d)), Rat(n - d, 1))
            IN  [nobs_diffuse |-> nd,
                 k_diffuse_states |-> IF m.initialization = "diffuse" THEN k ELSE 0,
                 scale_obs |-> so,
                 scale |-> sc,
                 filtered_state |-> [t \in 1..n |-> sts[t + 1].a],
                 filtered_state_cov |-> [t \in 1..n |-> ScaleMatrix(sts[t + 1].Pstar, sc)]]
    IN  Apply(Report, FilterThrough(m, n))

\* ------------------------------------------------------------ RecursiveLSResults.__init__
DfModelAddsConstraints(burn, kds, kc) == Max(burn, kds) + kc

\* q = max(self.loglikelihood_burn, self.k_diffuse_states)
\* self.df_model = q - self.model.k_constraints
DfModel(burn, kds, kc) == Max(burn, kds) - kc

\* self.df_resid = self.nobs_effective - self.df_model
DfResid(ne, dfm) == ne - dfm

\* smoothed_state and smoothed_state_cov of a result that was not smoothed: None,
\* held as the empty tuple (a smoothed series s is held as <<s>>).
NotSmoothed == << >>

\* The smoothed coefficients: with an identity transition and no state noise
\* the coefficient is constant, so every period's smoothed estimate is the
\* estimate from the whole sample.
SmoothedState(fs) == [t \in 1..nobs |-> PyAt(fs, -1)]

SmoothedStateCov(fsc) == [t \in 1..nobs |-> PyAt(fsc, -1)]

\* ------------------------------------------------------------ the filter's output
\* What the filter reports for one series of forecast errors v, where the data
\* are not followed.
FilterOutput(v, nd) ==
    LET sc == ConcentratedScale(Square(v), BurnIndexOf(nd, loglikelihood_burn))
    IN  [nobs_diffuse |-> nd,
         k_diffuse_states |-> k_exog,
         standardized_forecasts_error |-> [t \in 1..nobs |-> Standardize(v[t], sc)],
         scale_obs |-> Square(v),
         scale |-> sc,
         filtered_state |-> [t \in 1..nobs |-> FilteredState(v, t - 1)],
         filtered_state_cov |-> [t \in 1..nobs |-> FilteredStateCov(sc, t - 1)]]

\* What the filter reports for the model's data. The standardized forecast
\* errors are not rational numbers and are not followed.
FilterOutputOnData ==
    LET out == KalmanFilter([design |-> design, endog |-> endog, obs_cov |-> obs_cov,
                             transition |-> transition,
                             initialization |-> initialization,
                             loglikelihood_burn |-> loglikelihood_burn])
    IN  [nobs_diffuse |-> out.nobs_diffuse,
         k_diffuse_states |-> out.k_diffuse_states,
         standardized_forecasts_error |-> None,
         scale_obs |-> out.scale_obs,
         scale |-> out.scale,
         filtered_state |-> out.filtered_state,
         filtered_state_cov |-> out.filtered_state_cov]

\* The outputs the filter can give on this model.
FilterResults ==
    IF endog = NotFollowed
    THEN {FilterOutput(v, DiffusePeriods(k_exog, 0)) :
            v \in ForecastErrors(DiffusePeriods(k_exog, 0))}
    ELSE {FilterOutputOnData}

\* ------------------------------------------------------------ RecursiveLS.filter / smooth / fit
\* Runs the filter over the whole sample, and the smoother after it when
\* `smoothing`, and wraps the output in a result.
Estimate(smoothing) ==
    /\ \E out \in FilterResults :
          LET ne == nobs - loglikelihood_burn - Sum(nmissing)
              dfm == DfModel(loglikelihood_burn, out.k_diffuse_states, k_constraints)
          IN  /\ nobs_diffuse' = out.nobs_diffuse
              /\ k_diffuse_states' = out.k_diffuse_states
              /\ standardized_forecasts_error' = out.standardized_forecasts_error
              /\ scale_obs' = out.scale_obs
              /\ scale' = out.scale
              /\ filtered_state' = out.filtered_state
              /\ filtered_state_cov' = out.filtered_state_cov
              /\ smoothed_state' =
                     IF smoothing THEN <<SmoothedState(out.filtered_state)>>
                     ELSE NotSmoothed
              /\ smoothed_state_cov' =
                     IF smoothing THEN <<SmoothedStateCov(out.filtered_state_cov)>>
                     ELSE NotSmoothed
              /\ params' = PyAt(out.filtered_state, -1)
              /\ nobs_effective' = ne
              /\ df_model' = dfm
              /\ df_resid' = DfResid(ne, dfm)
    /\ pc' = "result"
    /\ UNCHANGED <<modelVars, ret, ncalls>>

\* super().filter(...), then the wrapping
filter ==
    /\ pc = "model"
    /\ Estimate(FALSE)

\* super().smooth(...), then the wrapping
smooth ==
    /\ pc = "model"
    /\ Estimate(TRUE)

FitWithoutSmoothing == filter

\* return self.smooth()
fit ==
    /\ pc = "model"
    /\ smooth

\* ------------------------------------------------------------ RecursiveLSResults.t_test
\* Restrictions a caller may pass: the unit row that picks the last of the k
\* coefficients, or a row with one column too many (not aligned with params).
RMatrices ==
    {[j \in 1..k_exog |-> IF j = k_exog THEN 1 ELSE 0], [j \in 1..(k_exog + 1) |-> 1]}

\* Locations a caller may pass: none (the empty tuple), or an observation
\* number <<t>> up to two past the end of the sample.
NoLoc == << >>

Locations == {NoLoc} \cup {<<t>> : t \in 0..(nobs + 1)}

\* The covariance a caller may pass as cov_p: the k x k identity.
UserCov == [i \in 1..k_exog |-> [j \in 1..k_exog |-> Rat(IF i = j THEN 1 ELSE 0, 1)]]

\* model._get_prediction_index(loc, loc)[0] for an observation number: the
\* number itself, in the sample or past its end.
PredictionStart(loc) == loc[1]

\* if loc is not None and cov_p is not None: raise ValueError
ConflictingArgumentsOr(loc, cov_p) == loc # NoLoc \/ cov_p # None

ConflictingArguments(loc, cov_p) == loc # NoLoc /\ cov_p # None

\* if t > self.model.nobs: raise ValueError('... not in the sample.')
NotInSample(t) == t > nobs

\* np.dot(r_matrix, params)
Dot(r, v) == Sum([i \in 1..Len(r) |-> r[i] * v[i]])

\* cov_params(r_matrix=r, cov_p=c): r c r'
QuadForm(r, c) ==
    RSum([i \in 1..Len(r) |->
            RSum([j \in 1..Len(r) |-> RMul(Rat(r[i] * r[j], 1), c[i][j])])])

\* cov_p = self.filtered_state_cov[:, :, t] is a view of the result's array, so
\* the in-place cov_p *= scale / self.scale writes the result's array.
RescaleInPlace(fsc, t, factor) ==
    [fsc EXCEPT ![t + 1] = ScaleMatrix(fsc[t + 1], factor)]

\* The covariance used when no cov_p is passed: cov_params_default, which
\* filter() set to the view filtered_state_cov[:, :, -1].
CovParamsDefault(fsc) == PyAt(fsc, -1)

ScaleAtOffByOne(t, d) ==
    LET n == (t - d) - Sum(PySlice(nmissing, d, t + 1))
    IN  Rat(Sum(PySlice(scale_obs, d, t + 1)), n)

\* nmissing = np.sum(nmissing[d:t + 1]); n = (t + 1 - d) - nmissing
ObsCount(t, d) == (t + 1 - d) - Sum(PySlice(nmissing, d, t + 1))

\* scale from the observations d..t: np.sum(scale_obs[d:t + 1]) / n
ScaleAt(t, d) == Rat(Sum(PySlice(scale_obs, d, t + 1)), ObsCount(t, d))

\* The calls explored: every restriction at every location with the default
\* covariance, and every restriction with cov_p at no, the first and the last
\* location.
TTestCalls ==
    [r : RMatrices, loc : Locations, cov_p : {None}]
    \cup [r : RMatrices, loc : {NoLoc, <<0>>, <<nobs - 1>>}, cov_p : {"given"}]

TTestError(r, loc, cov_p, e) ==
    [op |-> "t_test", r |-> r, loc |-> loc, cov_p |-> cov_p, err |-> e,
     effect |-> None, sd2 |-> None, df_denom |-> None]

\* The whole call: what it returns or raises, and the result's covariance array
\* after it.
TTest(r, loc, cov_p) ==
    IF ConflictingArguments(loc, cov_p)
    THEN [ret |-> TTestError(r, loc, cov_p, "ValueError: loc with cov_p"),
          fsc |-> filtered_state_cov]
    ELSE IF Len(r) # Len(params)
    THEN [ret |-> TTestError(r, loc, cov_p, "ValueError: not aligned"),
          fsc |-> filtered_state_cov]
    ELSE IF loc # NoLoc
    THEN LET t == PredictionStart(loc) IN
         IF NotInSample(t)
         THEN [ret |-> TTestError(r, loc, cov_p, "ValueError: not in the sample"),
               fsc |-> filtered_state_cov]
         ELSE IF PyIndexError(filtered_state, t)
         THEN [ret |-> TTestError(r, loc, cov_p, "IndexError"),
               fsc |-> filtered_state_cov]
         ELSE LET d == Max(loglikelihood_burn, nobs_diffuse)
                  miss == Sum(PySlice(nmissing, d, t + 1))
                  fsc == RescaleInPlace(filtered_state_cov, t,
                                        RDiv(ScaleAt(t, d), scale))
                  ne == (t + 1) - miss - loglikelihood_burn
              IN  [ret |-> [op |-> "t_test", r |-> r, loc |-> loc, cov_p |-> cov_p,
                            err |-> None,
                            effect |-> Dot(r, PyAt(filtered_state, t)),
                            sd2 |-> QuadForm(r, PyAt(fsc, t)),
                            df_denom |-> ne - df_model],
                   fsc |-> fsc]
    ELSE LET d == Max(loglikelihood_burn, nobs_diffuse)
             t == nobs
             miss == Sum(PyFrom(nmissing, d))
             ne == (t + 1) - miss - loglikelihood_burn
             c == IF cov_p = None THEN CovParamsDefault(filtered_state_cov)
                  ELSE UserCov
         IN  [ret |-> [op |-> "t_test", r |-> r, loc |-> loc, cov_p |-> cov_p,
                       err |-> None,
                       effect |-> Dot(r, params),
                       sd2 |-> QuadForm(r, c),
                       df_denom |-> ne - df_model],
              fsc |-> filtered_state_cov]

\* A call can be made on a result the caller is not holding a return value of.
CanCall == pc = "result" /\ ncalls < MaxCalls

t_test ==
    /\ CanCall
    /\ \E a \in TTestCalls :
          LET out == TTest(a.r, a.loc, a.cov_p)
          IN  /\ ret' = out.ret
              /\ filtered_state_cov' = out.fsc
    /\ ncalls' = ncalls + 1
    /\ pc' = "returned"
    /\ UNCHANGED <<modelVars, resultVars>>

\* ------------------------------------------------------------ RecursiveLSResults.get_prediction
\* Values of `dynamic` a caller may pass: False, True, an integer offset, or a
\* date string, given with the location model._get_index_loc resolves it to.
\* A bool is held as 0 or 1, as Python does.
DynamicValues ==
    [kind : {"bool", "int", "str"}, val : {0, 1}]

\* Values of `end`: the last observation, or one past it.
EndValues == {nobs - 1, nobs}

\* model._get_prediction_index: the number of periods `end` lies past the
\* last observation.
OutOfSample(end) == Max(end - (nobs - 1), 0)

\* if isinstance(dynamic, (bytes, unicode)):
\*     dynamic, _, _ = self.model._get_index_loc(dynamic)
ResolveDynamic(dyn) == IF dyn.kind = "str" THEN [kind |-> "int", val |-> dyn.val] ELSE dyn

\* Python's truth value of an int or a bool.
Truthy(x) == x # 0

\* if self.model._r_matrix is not None and (out_of_sample or dynamic): raise
PredictionNotSupported(out_of_sample, dyn) ==
    r_matrix # NoConstraints /\ (Truthy(out_of_sample) \/ Truthy(dyn.val))

GetPrediction(end, dynamic) ==
    LET out_of_sample == OutOfSample(end)
        dyn == ResolveDynamic(dynamic)
    IN  IF PredictionNotSupported(out_of_sample, dyn)
        THEN [op |-> "get_prediction", end |-> end, dynamic |-> dynamic,
              err |-> "NotImplementedError", predict |-> None]
        ELSE [op |-> "get_prediction", end |-> end, dynamic |-> dynamic,
              err |-> None,
              predict |-> [start |-> 0, end |-> (end - out_of_sample) + out_of_sample + 1,
                           dynamic |-> dyn]]

get_prediction ==
    /\ CanCall
    /\ \E end \in EndValues, dynamic \in DynamicValues :
          ret' = GetPrediction(end, dynamic)
    /\ ncalls' = ncalls + 1
    /\ pc' = "returned"
    /\ UNCHANGED <<modelVars, resultVars, filtered_state_cov>>

\* ------------------------------------------------------------ RecursiveLSResults.recursive_coefficients
\* array[start:end] along the first axis of a series of vectors
StateRows(series, start, end) ==
    [t \in 1..Len(series) |-> PySlice(series[t], start, end)]

\* array[start:end, start:end] along the first two axes of a series of matrices
CovRows(series, start, end) ==
    [t \in 1..Len(series) |->
        [i \in 1..Len(PySlice(series[t], start, end)) |->
            PySlice(PySlice(series[t], start, end)[i], start, end)]]

RecursiveCoefficients ==
    LET offset == 0
        start == offset
        end == offset + k_exog
    IN  [op |-> "recursive_coefficients",
         filtered |-> StateRows(filtered_state, start, end),
         filtered_cov |-> CovRows(filtered_state_cov, start, end),
         smoothed |-> IF smoothed_state # NotSmoothed
                      THEN <<StateRows(smoothed_state[1], start, end)>> ELSE NotSmoothed,
         smoothed_cov |-> IF smoothed_state_cov # NotSmoothed
                          THEN <<CovRows(smoothed_state_cov[1], start, end)>>
                          ELSE NotSmoothed,
         offset |-> offset]

recursive_coefficients ==
    /\ CanCall
    /\ ret' = RecursiveCoefficients
    /\ ncalls' = ncalls + 1
    /\ pc' = "returned"
    /\ UNCHANGED <<modelVars, resultVars, filtered_state_cov>>

\* ------------------------------------------------------------ recursive residuals, CUSUM
\* x * scale**0.5 for x a multiple of 1 / sqrt(scale): the units cancel.
TimesSqrtScale(x, sc) == IF IsFinite(x) /\ IsFinite(sc) THEN x ELSE NonFinite

\* standardized_forecasts_error[0] * self.scale**0.5
ResidRecursive ==
    [t \in 1..nobs |-> TimesSqrtScale(standardized_forecasts_error[t], scale)]

\* d = max(self.nobs_diffuse, self.loglikelihood_burn)
BurnIndex == BurnIndexOf(nobs_diffuse, loglikelihood_burn)

RCumsumExclusive(x) == [i \in 1..Len(x) |-> RSum(SubSeq(x, 1, i - 1))]

\* np.cumsum over rationals
RCumsum(x) == [i \in 1..Len(x) |-> RSum(SubSeq(x, 1, i))]

RSquare(x) == [i \in 1..Len(x) |-> RMul(x[i], x[i])]

\* np.std(x, ddof=1) ** 2: the sum of squared deviations from the mean over
\* len(x) - 1; non-finite for fewer than two values.
Variance(x) ==
    LET mean == RDiv(RSum(x), Rat(Len(x), 1))
        dev == [i \in 1..Len(x) |-> RAdd(x[i], RMul(Rat(-1, 1), mean))]
    IN  RDiv(RSum(RSquare(dev)), Rat(Len(x) - 1, 1))

\* np.cumsum(resid[d:]) / np.std(resid[d:], ddof=1): each value is held as
\* num / sqrt(var).
Cusum ==
    LET x == PyFrom(ResidRecursive, BurnIndex)
        numer == RCumsum(x)
    IN  [i \in 1..Len(x) |-> [num |-> numer[i], var |-> Variance(x)]]

CusumSquaresDenomFirst(numer) == PyAt(numer, 0)

\* denom = numer[-1]
CusumSquaresDenom(numer) == PyAt(numer, -1)

\* numer = np.cumsum(resid[d:]**2); denom = numer[-1]; numer / denom
CusumSquares ==
    LET x == PyFrom(ResidRecursive, BurnIndex)
        numer == RCumsum(RSquare(x))
    IN  IF PyIndexError(numer, -1)
        THEN [op |-> "cusum_squares", err |-> "IndexError", value |-> << >>]
        ELSE [op |-> "cusum_squares", err |-> None,
              value |-> [i \in 1..Len(numer) |-> RDiv(numer[i], CusumSquaresDenom(numer))]]

cusum ==
    /\ CanCall
    /\ ret' = [op |-> "cusum", err |-> None, value |-> Cusum]
    /\ ncalls' = ncalls + 1
    /\ pc' = "returned"
    /\ UNCHANGED <<modelVars, resultVars, filtered_state_cov>>

cusum_squares ==
    /\ CanCall
    /\ ret' = CusumSquares
    /\ ncalls' = ncalls + 1
    /\ pc' = "returned"
    /\ UNCHANGED <<modelVars, resultVars, filtered_state_cov>>

\* ------------------------------------------------------------ significance bounds
\* Significance levels a caller may pass: 0.005, 0.01, 0.02, 0.025, 0.05, 0.1,
\* 0.2 and 0.25.
AlphaValues ==
    {Rat(1, 200), Rat(1, 100), Rat(1, 50), Rat(1, 40), Rat(1, 20), Rat(1, 10),
     Rat(1, 5), Rat(1, 4)}

CusumScalarBrown(alpha) ==
    IF alpha = Rat(1, 100) THEN <<Rat(1143, 1000)>>
    ELSE IF alpha = Rat(5, 100) THEN <<Rat(948, 1000)>>
    ELSE IF alpha = Rat(10, 100) THEN <<Rat(850, 1000)>>
    ELSE << >>

\* The constant of the CUSUM bound for alpha as <<scalar>>; the empty tuple
\* for an alpha that raises ValueError.
CusumScalar(alpha) ==
    IF alpha = Rat(1, 100) THEN <<Rat(1143, 1000)>>
    ELSE IF alpha = Rat(5, 100) THEN <<Rat(948, 1000)>>
    ELSE IF alpha = Rat(10, 100) THEN <<Rat(950, 1000)>>
    ELSE << >>

\* upper_line(x) = scalar * tmp + 2 * scalar * (x - d) / tmp with
\* tmp = (nobs - d - ddof)**0.5, held as coef / sqrt(tmp2):
\* coef = scalar * (tmp2 + 2 * (x - d)). Non-finite when tmp is 0.
UpperLine(scalar, x, d, tmp2) ==
    IF tmp2 = 0 THEN [coef |-> NonFinite, tmp2 |-> tmp2]
    ELSE [coef |-> RMul(scalar, Rat(tmp2 + 2 * (x - d), 1)), tmp2 |-> tmp2]

\* -upper_line(x)
Negate(b) == [coef |-> RMul(Rat(-1, 1), b.coef), tmp2 |-> b.tmp2]

\* _cusum_significance_bounds(alpha, ddof=0, points=None)
CusumSignificanceBounds(alpha) ==
    LET scalar == CusumScalar(alpha)
        d == BurnIndex
        tmp2 == nobs - d
        points == <<d, nobs>>
        upper == [i \in 1..2 |-> UpperLine(scalar[1], points[i], d, tmp2)]
    IN  IF scalar = << >>
        THEN [op |-> "cusum_significance_bounds", alpha |-> alpha,
              err |-> "ValueError: Invalid significance level.",
              scalar |-> None, lower |-> None, upper |-> None]
        ELSE [op |-> "cusum_significance_bounds", alpha |-> alpha, err |-> None,
              scalar |-> scalar[1],
              lower |-> [i \in 1..2 |-> Negate(upper[i])], upper |-> upper]

cusum_significance_bounds ==
    /\ CanCall
    /\ \E alpha \in AlphaValues : ret' = CusumSignificanceBounds(alpha)
    /\ ncalls' = ncalls + 1
    /\ pc' = "returned"
    /\ UNCHANGED <<modelVars, resultVars, filtered_state_cov>>

\* _cusum_squares_scalars, in units of 1e-7. Columns are alpha = 0.1, 0.05,
\* 0.025, 0.01, 0.005.
cusum_squares_scalars ==
    << <<10729830, 12238734, 13581015, 15174271, 16276236>>,
       <<-6698868, -6700069, -6701218, -6702672, -6703724>>,
       <<-5816458, -7351697, -8858694, -10847745, -12365861>> >>

\* The list searched for alpha / 2.
HalfAlphaLevels == <<Rat(1, 10), Rat(5, 100), Rat(25, 1000), Rat(1, 100), Rat(5, 1000)>>

\* list.index(x): the zero-based position of the first element equal to x,
\* -1 standing for the ValueError raised when there is none.
RECURSIVE IndexFrom(_, _, _)
IndexFrom(list, x, i) ==
    IF i >= Len(list) THEN -1
    ELSE IF PyAt(list, i) = x THEN i
    ELSE IndexFrom(list, x, i + 1)

ListIndex(list, x) == IndexFrom(list, x, 0)

HalfAlphaIndexNoHalving(alpha) == ListIndex(HalfAlphaLevels, alpha)

\* ix = [0.1, 0.05, 0.025, 0.01, 0.005].index(alpha / 2)
HalfAlphaIndex(alpha) == ListIndex(HalfAlphaLevels, RDiv(alpha, Rat(2, 1)))

\* _cusum_squares_scalars[:, ix]
ScalarsColumn(ix) == [r \in 1..Len(cusum_squares_scalars) |-> PyAt(cusum_squares_scalars[r], ix)]

\* _cusum_squares_significance_bounds(alpha, points=None). The critical value
\* crit = s0 / n**0.5 + s1 / n + s2 / n**1.5 is held by its scalars and n.
CusumSquaresSignificanceBounds(alpha) ==
    LET d == BurnIndex
        n == RAdd(RMul(Rat(1, 2), Rat(nobs - d, 1)), Rat(-1, 1))
        ix == HalfAlphaIndex(alpha)
        points == <<d, nobs>>
        line == [i \in 1..2 |-> Rat(points[i] - d, nobs - d)]
    IN  IF ix = -1
        THEN [op |-> "cusum_squares_significance_bounds", alpha |-> alpha,
              err |-> "ValueError: Invalid significance level.",
              ix |-> None, scalars |-> None, n |-> None, line |-> None]
        ELSE [op |-> "cusum_squares_significance_bounds", alpha |-> alpha,
              err |-> None, ix |-> ix, scalars |-> ScalarsColumn(ix), n |-> n,
              line |-> line]

cusum_squares_significance_bounds ==
    /\ CanCall
    /\ \E alpha \in AlphaValues : ret' = CusumSquaresSignificanceBounds(alpha)
    /\ ncalls' = ncalls + 1
    /\ pc' = "returned"
    /\ UNCHANGED <<modelVars, resultVars, filtered_state_cov>>

\* ------------------------------------------------------------ sums of squares
\* filter_results.endog[0]: the first observed series over the periods.
EndogRow(i) == [t \in 1..Len(endog) |-> Rat(endog[t][i + 1], 1)]

\* np.mean(filter_results.endog): the mean over every entry of the array.
EndogMean ==
    RDiv(RSum([t \in 1..Len(endog) |-> RSum(RVec(endog[t]))]),
         Rat(Len(endog) * Len(endog[1]), 1))

\* filter_results.obs_cov[0, 0, 0]: the filter reports the observation
\* covariance multiplied by the concentrated scale.
ResultsObsCov == RMul(Rat(obs_cov[1][1], 1), scale)

\* (self.nobs - d) * self.filter_results.obs_cov[0, 0, 0]
Ssr == RMul(Rat(nobs - BurnIndex, 1), ResultsObsCov)

\* np.sum((endog[0] - np.mean(endog))**2)
CenteredTss ==
    RSum(RSquare([t \in 1..Len(endog) |-> RSub(EndogRow(0)[t], EndogMean)]))

\* np.sum((endog[0])**2)
UncenteredTss == RSum(RSquare(EndogRow(0)))

\* The total sum of squares ess and rsquared use.
TssFor(kc) == IF Truthy(kc) THEN CenteredTss ELSE UncenteredTss

Ess == RSub(TssFor(k_constant), Ssr)

Rsquared == RSub(Rat(1, 1), RDiv(Ssr, TssFor(k_constant)))

ssr ==
    /\ CanCall
    /\ ret' = [op |-> "ssr", value |-> Ssr]
    /\ ncalls' = ncalls + 1
    /\ pc' = "returned"
    /\ UNCHANGED <<modelVars, resultVars, filtered_state_cov>>

centered_tss ==
    /\ CanCall
    /\ ret' = [op |-> "centered_tss", value |-> CenteredTss]
    /\ ncalls' = ncalls + 1
    /\ pc' = "returned"
    /\ UNCHANGED <<modelVars, resultVars, filtered_state_cov>>

uncentered_tss ==
    /\ CanCall
    /\ ret' = [op |-> "uncentered_tss", value |-> UncenteredTss]
    /\ ncalls' = ncalls + 1
    /\ pc' = "returned"
    /\ UNCHANGED <<modelVars, resultVars, filtered_state_cov>>

ess ==
    /\ CanCall
    /\ ret' = [op |-> "ess", value |-> Ess]
    /\ ncalls' = ncalls + 1
    /\ pc' = "returned"
    /\ UNCHANGED <<modelVars, resultVars, filtered_state_cov>>

rsquared ==
    /\ CanCall
    /\ ret' = [op |-> "rsquared", value |-> Rsquared]
    /\ ncalls' = ncalls + 1
    /\ pc' = "returned"
    /\ UNCHANGED <<modelVars, resultVars, filtered_state_cov>>

\* The caller is done with what the last call returned or raised.
done ==
    /\ pc = "returned"
    /\ pc' = "result"
    /\ ret' = NoCall
    /\ UNCHANGED <<modelVars, resultVars, filtered_state_cov, ncalls>>

\* A result obtained with filter(), and the calls made on it.
Next ==
    \/ filter
    \/ t_test
    \/ get_prediction
    \/ cusum
    \/ cusum_squares
    \/ cusum_significance_bounds
    \/ cusum_squares_significance_bounds
    \/ done

Spec == Init /\ [][Next]_vars

\* The model built from data, its estimation and the sums of squares of the
\* result.
DataNext ==
    \/ filter
    \/ smooth
    \/ fit
    \/ recursive_coefficients
    \/ ssr
    \/ centered_tss
    \/ uncentered_tss
    \/ ess
    \/ rsquared
    \/ done

DataSpec == DataInit /\ [][DataNext]_vars

\* ============================================================ claims
\* The last call was `op`, and the caller holds what it returned or raised.
Returned(op) == pc = "returned" /\ ret.op = op

\* A rational that is a finite number greater than zero.
Positive(x) == IsFinite(x) /\ x.n > 0

\* ---- C1
\* C1: a t_test call leaves every entry of filtered_state and
\* filtered_state_cov exactly as it was before the call (stated for the calls
\* that return a standard error greater than zero).
C1_TTestLeavesEstimates ==
    [][(t_test /\ ret'.err = None /\ Positive(ret'.sd2)) =>
            /\ filtered_state' = filtered_state
            /\ filtered_state_cov' = filtered_state_cov]_vars

\* ---- C2
\* The recursive residuals from the burn index on.
PostBurnResiduals == PyFrom(ResidRecursive, Max(nobs_diffuse, loglikelihood_burn))

\* The post-burn sum of squared recursive residuals is a non-zero number.
NonZeroPostBurnSumOfSquares ==
    /\ \A i \in 1..Len(PostBurnResiduals) : IsFinite(PostBurnResiduals[i])
    /\ \E i \in 1..Len(PostBurnResiduals) : PostBurnResiduals[i].n # 0

\* C2: with a non-zero post-burn sum of squared recursive residuals, every
\* element of cusum_squares lies in [0, 1], the series is non-decreasing and
\* its last element is exactly 1.
C2_CusumSquaresBounded ==
    (Returned("cusum_squares") /\ NonZeroPostBurnSumOfSquares) =>
        /\ ret.err = None
        /\ Len(ret.value) = Len(PostBurnResiduals)
        /\ \A i \in 1..Len(ret.value) :
              /\ IsFinite(ret.value[i])
              /\ RLe(Rat(0, 1), ret.value[i])
              /\ RLe(ret.value[i], Rat(1, 1))
        /\ \A i \in 1..(Len(ret.value) - 1) : RLe(ret.value[i], ret.value[i + 1])
        /\ ret.value[Len(ret.value)] = Rat(1, 1)

\* cusum_squares was computed on a series that rises through a value strictly
\* between 0 and 1.
C2_Witness ==
    /\ Returned("cusum_squares")
    /\ NonZeroPostBurnSumOfSquares
    /\ Len(ret.value) >= 3
    /\ \E i \in 1..Len(ret.value) : ret.value[i] = Rat(1, 2)

\* ---- C3
\* C3 as stated: the first included CUSUM value (at the burn index) is 0.
C3_CusumFirstIsZero ==
    (/\ Returned("cusum")
     /\ Len(ret.value) > 0
     /\ Positive(ret.value[1].var)
     /\ IsFinite(ret.value[1].num)) => ret.value[1].num.n = 0

\* C3 as amended: the first included CUSUM value is the recursive residual at
\* the burn index d over sigma, and the i-th is the sum of the residuals at
\* d..d+i over sigma: the running sum includes the residual at d.
C3_CusumFirstIsFirstResidual ==
    (Returned("cusum") /\ Len(ret.value) > 0) =>
        /\ ret.value[1].num = PostBurnResiduals[1]
        /\ \A i \in 2..Len(ret.value) :
              ret.value[i].num = RAdd(ret.value[i - 1].num, PostBurnResiduals[i])
        /\ \A i \in 1..Len(ret.value) : ret.value[i].var = Variance(PostBurnResiduals)

\* cusum was computed on a series whose first included value is not 0.
C3_Witness ==
    /\ Returned("cusum")
    /\ Len(ret.value) >= 2
    /\ Positive(ret.value[1].var)
    /\ IsFinite(ret.value[1].num)
    /\ ret.value[1].num.n # 0

\* ---- C4
\* A t_test call that passed the argument checks made before loc is looked at.
TTestAtLocation ==
    /\ Returned("t_test")
    /\ ret.loc # NoLoc
    /\ ret.cov_p = None
    /\ Len(ret.r) = k_exog

\* C4: t_test with a loc that resolves to t fails with the 'not in the sample'
\* error exactly when t is outside [0, nobs).
C4_OutOfSampleRaisesNotInSample ==
    TTestAtLocation =>
        ((ret.err = "ValueError: not in the sample")
            <=> (ret.loc[1] < 0 \/ ret.loc[1] >= nobs))

\* ---- C5
\* A step in which t_test was called: no other call returns such a record.
TTestStep == pc = "result" /\ pc' = "returned" /\ ret'.op = "t_test"

\* C5: a t_test call with both loc and cov_p given raises the conflicting
\* arguments error and leaves the result as it was; a call with at most one of
\* them never raises it.
C5_LocWithCovPFails ==
    [][TTestStep =>
        IF ret'.loc # NoLoc /\ ret'.cov_p # None
        THEN /\ ret'.err = "ValueError: loc with cov_p"
             /\ UNCHANGED <<resultVars, filtered_state_cov>>
        ELSE ret'.err # "ValueError: loc with cov_p"]_vars

\* t_test was called with loc and cov_p and raised, and was called with a
\* misaligned restriction as well.
C5_Witness ==
    /\ Returned("t_test")
    /\ ret.loc # NoLoc
    /\ ret.cov_p # None
    /\ Len(ret.r) # k_exog
    /\ ret.err = "ValueError: loc with cov_p"

\* ---- C6
\* C6: _cusum_significance_bounds accepts exactly alpha = 0.01, 0.05 and 0.10,
\* with the scalars 1.143, 0.948 and 0.950; every other alpha raises the
\* invalid significance level error and no bound is computed.
C6_CusumLevels ==
    Returned("cusum_significance_bounds") =>
        /\ (ret.alpha = Rat(1, 100)) => (ret.err = None /\ ret.scalar = Rat(1143, 1000))
        /\ (ret.alpha = Rat(5, 100)) => (ret.err = None /\ ret.scalar = Rat(948, 1000))
        /\ (ret.alpha = Rat(10, 100)) => (ret.err = None /\ ret.scalar = Rat(950, 1000))
        /\ (ret.alpha \notin {Rat(1, 100), Rat(5, 100), Rat(10, 100)}) =>
              /\ ret.err = "ValueError: Invalid significance level."
              /\ ret.lower = None
              /\ ret.upper = None

\* The bounds were computed at the 10% level.
C6_Witness ==
    /\ Returned("cusum_significance_bounds")
    /\ ret.alpha = Rat(10, 100)
    /\ ret.err = None
    /\ IsFinite(ret.upper[1].coef)

\* ---- C7
\* The alpha accepted by _cusum_squares_significance_bounds with the table
\* column each selects.
SquaresColumnOf(alpha) ==
    IF alpha = Rat(2, 10) THEN 0
    ELSE IF alpha = Rat(1, 10) THEN 1
    ELSE IF alpha = Rat(5, 100) THEN 2
    ELSE IF alpha = Rat(2, 100) THEN 3
    ELSE IF alpha = Rat(1, 100) THEN 4
    ELSE -1

\* C7: _cusum_squares_significance_bounds accepts exactly the alpha whose half
\* is one of 0.1, 0.05, 0.025, 0.01, 0.005 and uses the table column at the
\* position of alpha / 2 in that list; every other alpha raises the invalid
\* significance level error and no bound is returned.
C7_CusumSquaresLevels ==
    Returned("cusum_squares_significance_bounds") =>
        IF SquaresColumnOf(ret.alpha) # -1
        THEN /\ ret.err = None
             /\ ret.ix = SquaresColumnOf(ret.alpha)
             /\ ret.scalars = [r \in 1..3 |-> cusum_squares_scalars[r][ret.ix + 1]]
        ELSE /\ ret.err = "ValueError: Invalid significance level."
             /\ ret.scalars = None
             /\ ret.line = None

\* The bounds were computed at alpha = 0.05, from the third column.
C7_Witness ==
    /\ Returned("cusum_squares_significance_bounds")
    /\ ret.alpha = Rat(5, 100)
    /\ ret.err = None
    /\ ret.scalars = <<13581015, -6701218, -8858694>>

\* ---- C8
\* The request is for dynamic prediction: anything but dynamic=False.
RequestsDynamic(dynamic) == ~(dynamic.kind = "bool" /\ dynamic.val = 0)

\* C8: get_prediction raises the not-supported error, without calling the
\* filter's predict, exactly when the model has constraints and the request is
\* out-of-sample or dynamic.
C8_ConstrainedPredictionUnsupported ==
    Returned("get_prediction") =>
        IF r_matrix # NoConstraints /\ (ret.end > nobs - 1 \/ RequestsDynamic(ret.dynamic))
        THEN ret.err = "NotImplementedError" /\ ret.predict = None
        ELSE ret.err = None

\* ---- C9
\* C9 as stated: df_model is the exclusion count d of the diagnostics less
\* k_constraints, df_resid = nobs_effective - df_model, and the two add up to
\* nobs_effective.
C9_DfModelFromBurnIndex ==
    (pc # "model") =>
        /\ df_model = Max(nobs_diffuse, loglikelihood_burn) - k_constraints
        /\ df_resid = nobs_effective - df_model
        /\ df_model + df_resid = nobs_effective

\* C9 as amended: df_model is max(loglikelihood_burn, k_diffuse_states) less
\* k_constraints, with k_diffuse_states the number of diffuse states and not
\* the exclusion count d = max(nobs_diffuse, loglikelihood_burn);
\* df_resid = nobs_effective - df_model, and the two add up to nobs_effective.
C9_DfModelFromDiffuseStates ==
    (pc # "model") =>
        /\ df_model = Max(loglikelihood_burn, k_diffuse_states) - k_constraints
        /\ df_resid = nobs_effective - df_model
        /\ df_model + df_resid = nobs_effective

\* A fitted result whose number of diffuse states is not its exclusion count.
C9_Witness ==
    /\ pc = "result"
    /\ k_constraints = 1
    /\ Max(loglikelihood_burn, k_diffuse_states) # Max(nobs_diffuse, loglikelihood_burn)
    /\ df_model = k_exog - 1

\* ---- C10
\* A result of a model with two regressors, no constraints and no missing data.
TwoRegressorsPlain == pc # "model" /\ k_exog = 2 /\ k_constraints = 0 /\ Sum(nmissing) = 0

\* t_test(r, loc=nobs-1) and t_test(r) return the same effect and the same
\* standard error (and so the same statistic), for every aligned r.
LastLocationAgreesWithDefault ==
    \A r \in {x \in RMatrices : Len(x) = k_exog} :
        LET at == TTest(r, <<nobs - 1>>, None).ret
            full == TTest(r, NoLoc, None).ret
        IN  /\ at.err = None
            /\ full.err = None
            /\ at.effect = full.effect
            /\ at.sd2 = full.sd2
            /\ IsFinite(at.sd2)

\* C10 as stated: with two regressors, no constraints and no missing data,
\* t_test at loc = nobs-1 agrees with the default call.
C10_LastLocationIsDefault == TwoRegressorsPlain => LastLocationAgreesWithDefault

\* C10 as amended: the same, for a result whose scale estimate is a positive
\* number.
C10_LastLocationIsDefaultPositiveScale ==
    (TwoRegressorsPlain /\ Positive(scale)) => LastLocationAgreesWithDefault

\* t_test was called at the last location of such a result and returned a
\* standard error other than 0.
C10_Witness ==
    /\ TwoRegressorsPlain
    /\ Positive(scale)
    /\ Returned("t_test")
    /\ ret.loc = <<nobs - 1>>
    /\ ret.err = None
    /\ Positive(ret.sd2)

\* ---- C11
\* The degrees of freedom of a test anchored at the zero-based index t:
\* (t + 1 - nmissing - burn) - df_model, nmissing counted over d..t.
DfAnchoredAt(t) ==
    ((t + 1) - Sum(PySlice(nmissing, BurnIndex, t + 1)) - loglikelihood_burn) - df_model

\* C11: the default t_test (no loc) is anchored at t = nobs - 1: it reports
\* (nobs - nmissing - burn) - df_model, the degrees of freedom the call with
\* loc = nobs - 1 reports.
C11_DefaultAnchoredAtLastIndex ==
    (Returned("t_test") /\ ret.loc = NoLoc /\ ret.err = None) =>
        /\ ret.df_denom = DfAnchoredAt(nobs - 1)
        /\ ret.df_denom = TTest(ret.r, <<nobs - 1>>, None).ret.df_denom

SupportedAlpha == {a \in AlphaValues : CusumScalar(a) # << >>}

\* C19: on one result, at each evaluation point, a smaller supported alpha
\* gives an upper bound at least as large and a lower bound at least as small,
\* and the lower bound is the negation of the upper bound.
C19_BandsNested ==
    (pc = "result" /\ nobs - BurnIndex > 0) =>
        \A a \in SupportedAlpha, b \in SupportedAlpha :
            LET wide == CusumSignificanceBounds(a)
                narrow == CusumSignificanceBounds(b)
            IN  \A i \in 1..2 :
                  /\ wide.lower[i] = Negate(wide.upper[i])
                  /\ RLe(a, b) =>
                        /\ RLe(narrow.upper[i].coef, wide.upper[i].coef)
                        /\ RLe(wide.lower[i].coef, narrow.lower[i].coef)

\* ---- C20
\* C20: for a t_test at an in-sample location t, the observation count
\* (t + 1 - d) - nmissing[d..t] that divides the accumulated scale is at least 1.
C20_ObsCountPositive ==
    (/\ Returned("t_test")
     /\ ret.loc # NoLoc
     /\ ret.err = None
     /\ ret.loc[1] >= 0
     /\ ret.loc[1] < nobs) =>
        ObsCount(ret.loc[1], Max(loglikelihood_burn, nobs_diffuse)) >= 1

\* ---- C17
\* What recursive_coefficients returned carries the filtered mean and covariance
\* of all k_exog coefficients at every period, with offset 0.
CarriesFilteredSeries ==
    /\ ret.offset = 0
    /\ ret.filtered = filtered_state
    /\ ret.filtered_cov = filtered_state_cov
    /\ Len(ret.filtered) = nobs
    /\ \A t \in 1..nobs :
          /\ Len(ret.filtered[t]) = k_exog
          /\ Len(ret.filtered_cov[t]) = k_exog
          /\ \A i \in 1..k_exog : Len(ret.filtered_cov[t][i]) = k_exog

\* C17: recursive_coefficients always carries the filtered series of all k_exog
\* coefficients with offset 0; a result made by filter() has no smoothed
\* estimates and a result made by smooth() or fit() has them, and the smoothed
\* and smoothed_cov fields are None in the first case and set in the second.
C17_SmoothedOnlyAfterSmoothing ==
    /\ [][filter => (smoothed_state' = NotSmoothed /\ smoothed_state_cov' = NotSmoothed)]_vars
    /\ [][(smooth \/ fit) =>
            (smoothed_state' # NotSmoothed /\ smoothed_state_cov' # NotSmoothed)]_vars
    /\ [](Returned("recursive_coefficients") =>
            /\ CarriesFilteredSeries
            /\ ret.smoothed = smoothed_state
            /\ ret.smoothed_cov = smoothed_state_cov
            /\ (ret.smoothed = NotSmoothed) <=> (smoothed_state = NotSmoothed)
            /\ (ret.smoothed_cov = NotSmoothed) <=> (smoothed_state_cov = NotSmoothed))

\* recursive_coefficients returned smoothed estimates of two coefficients.
C17_Witness ==
    /\ Returned("recursive_coefficients")
    /\ k_exog = 2
    /\ ret.smoothed # NotSmoothed
    /\ ret.smoothed_cov # NotSmoothed
    /\ Len(ret.smoothed[1]) = nobs

\* ---- C12
\* A model was constructed from the data the caller passed.
Constructed == pc \in {"model", "result", "returned"}

\* The constraints the caller passed, as R and q; none is m = 0.
GivenR == IF args.constraints = NoConstraints THEN << >> ELSE args.constraints[1].R

GivenQ == IF args.constraints = NoConstraints THEN << >> ELSE args.constraints[1].q

\* C12: after construction the transition is the k x k identity; at every t
\* row 0 of the design is the regressor row x_t and rows 1..m are R; obs_cov has
\* 1 at (0, 0) and 0 in every constraint row and column; the initialization is
\* diffuse unless the caller passed another one.
C12_StateSpaceMatrices ==
    Constructed =>
        LET n == Len(args.endog)
            k == Len(args.exog[1])
            m == Len(GivenR)
        IN  /\ Len(transition) = k
            /\ \A i \in 1..k : \A j \in 1..k :
                  transition[i][j] = IF i = j THEN 1 ELSE 0
            /\ Len(design) = 1 + m
            /\ \A t \in 1..n : \A j \in 1..k :
                  /\ design[1][j][t] = args.exog[t][j]
                  /\ \A i \in 1..m : design[1 + i][j][t] = GivenR[i][j]
            /\ Len(obs_cov) = 1 + m
            /\ obs_cov[1][1] = 1
            /\ \A i \in 1..(1 + m) : \A j \in 1..(1 + m) :
                  (i > 1 \/ j > 1) => obs_cov[i][j] = 0
            /\ initialization = IF args.initialization = << >> THEN "diffuse"
                                ELSE args.initialization[1]

\* A model with two regressors and a constraint on the second was constructed
\* with the initialization left to the default.
C12_Witness ==
    /\ pc = "model"
    /\ k_exog = 2
    /\ k_constraints = 1
    /\ nobs = 3
    /\ args.initialization = << >>
    /\ design[2] = <<<<0, 0, 0>>, <<1, 1, 1>>>>

\* ---- C13
\* C13: with m > 0 constraints the observation handed to the filter at every t
\* has length 1 + m, slot 0 is the response y_t and slot j is q_j, and k_endog
\* is 1; with no constraint k_constraints is 0, the response is handed over
\* unchanged and k_endog is 1.
C13_AugmentedObservation ==
    LET n == Len(args.endog)
        m == Len(GivenR)
    IN  /\ Constructed
        /\ k_constraints = m
        /\ k_endog = 1
        /\ Len(endog) = n
        /\ \A t \in 1..n :
              /\ Len(endog[t]) = 1 + m
              /\ endog[t][1] = args.endog[t]
              /\ \A j \in 1..m : endog[t][1 + j] = GivenQ[j]

\* ---- C14
\* C14: with constraints (R, q), the filtered coefficients at every period at or
\* after the diffuse periods satisfy R beta_t = q.
C14_FilteredStateMeetsConstraints ==
    (pc \in {"result", "returned"} /\ args.constraints # NoConstraints) =>
        \A t \in (nobs_diffuse + 1)..nobs : \A i \in 1..Len(GivenR) :
            RDot(RVec(GivenR[i]), filtered_state[t]) = Rat(GivenQ[i], 1)

\* ---- C15
\* The coefficients b solve the normal equations X'X b = X'y of the data the
\* caller passed: the residual y - X b is orthogonal to every regressor.
SolvesNormalEquations(b) ==
    \A j \in 1..Len(args.exog[1]) :
        RSum([t \in 1..Len(args.endog) |->
                RMul(Rat(args.exog[t][j], 1),
                     RSub(Rat(args.endog[t], 1), RDot(RVec(args.exog[t]), b)))])
            = Rat(0, 1)

\* params is the filtered estimate at the last period and the least-squares
\* estimate; for the example series on an intercept it is the mean, 3.
ParamsAreLeastSquares ==
    /\ params = PyAt(filtered_state, -1)
    /\ SolvesNormalEquations(params)
    /\ (args.endog = ExampleEndog /\ \A t \in 1..Len(args.exog) : args.exog[t] = <<1>>) =>
          params = <<Rat(3, 1)>>

\* C15 as stated: with no constraints (and no missing data) the params of the
\* result of filter(), smooth() and fit() are the last filtered estimate and
\* equal the least-squares estimate.
C15_ParamsAreLeastSquares ==
    (pc \in {"result", "returned"} /\ args.constraints = NoConstraints) =>
        ParamsAreLeastSquares

\* C15 as amended: the same, for a model whose initialization the caller left
\* to the default, diffuse.
C15_ParamsAreLeastSquaresDiffuse ==
    (/\ pc \in {"result", "returned"}
     /\ args.constraints = NoConstraints
     /\ args.initialization = << >>) => ParamsAreLeastSquares

\* The example was estimated and its coefficient is 3.
C15_Witness ==
    /\ pc = "result"
    /\ args.endog = ExampleEndog
    /\ \A t \in 1..Len(args.exog) : args.exog[t] = <<1>>
    /\ args.constraints = NoConstraints
    /\ args.initialization = << >>
    /\ params = <<Rat(3, 1)>>
    /\ smoothed_state # NotSmoothed

\* ---- C16
\* The mean of the response the caller passed.
ResponseMean == RDiv(RSum(RVec(args.endog)), Rat(Len(args.endog), 1))

\* The sum over t of (y_t - mean(y))^2.
ResponseCenteredTss ==
    RSum(RSquare([t \in 1..Len(args.endog) |->
                    RSub(Rat(args.endog[t], 1), ResponseMean)]))

\* The sum over t of y_t^2.
ResponseUncenteredTss == RSum(RSquare(RVec(args.endog)))

\* The total sum of squares the model's k_constant selects.
ResponseTss == IF k_constant = 1 THEN ResponseCenteredTss ELSE ResponseUncenteredTss

\* C16: centered_tss and uncentered_tss are computed from the response alone,
\* with and without constraints, and ess = TSS - ssr and rsquared = 1 - ssr/TSS
\* use the centered TSS exactly when the model has a constant.
C16_TssFromResponse ==
    /\ Returned("centered_tss") => ret.value = ResponseCenteredTss
    /\ Returned("uncentered_tss") => ret.value = ResponseUncenteredTss
    /\ Returned("ess") => ret.value = RSub(ResponseTss, Ssr)
    /\ Returned("rsquared") => ret.value = RSub(Rat(1, 1), RDiv(Ssr, ResponseTss))

====
